---- MODULE Spec2Model ----
(***************************************************************************)
(* Model of src/ui.py (PDANET+RWT GUI): the ScriptRunner thread that       *)
(* launches the tunnel script and streams its output, ScriptRunner.stop()  *)
(* with its SIGINT -> SIGTERM -> SIGKILL escalation, the LogMonitor thread *)
(* that tails the log file, and the PDNRWTGui handlers that start and stop *)
(* them.                                                                   *)
(*                                                                         *)
(* A text line is a sequence of tokens (chunks of characters); the         *)
(* whitespace token is " ".  A stream (the child's pipe, the log file) is  *)
(* a sequence of records [text, nl]: nl says whether the line has been     *)
(* terminated by a newline.                                                *)
(***************************************************************************)
EXTENDS Integers, Sequences, FiniteSets, TLC

VARIABLES
    \* ---- PDNRWTGui (GUI thread)
    guiPc,          \* position of the GUI thread: "idle" = in the event loop
    startBtn,       \* start_btn.isEnabled()
    stopBtn,        \* stop_btn.isEnabled()
    stopping,       \* self.stopping
    status,         \* status bar message
    scriptRunner,   \* self.script_runner is not None
    errorBoxes,     \* QMessageBox.critical dialogs shown since the last start
    startTry,       \* what the pre-checks of the latest start_tunnel found
    warnings,       \* "[SYSTEM] Warning: ..." lines appended by stop_tunnel
    session,        \* number of ScriptRunner objects created so far
    delivered,      \* how many of runOut's queued signals the GUI has handled
    \* ---- ScriptRunner object and its thread
    running,        \* self.running
    process,        \* self.process is not None
    runPc,          \* position of the thread in run()
    runOut,         \* signals emitted by run(), in order
    \* ---- ScriptRunner.stop(), executed by the GUI thread
    stopPc,         \* position inside stop()
    stopCalls,      \* number of stop() calls on this ScriptRunner
    stopLog,        \* what stop() did, in order: signals, wait outcomes, errors
    sysOut,         \* "[SYSTEM] ..." lines emitted by stop(), in order
    waited,         \* seconds spent in waits of stop() that timed out
    \* ---- the child process (sudo bash pdanet_rwt.sh) and its pipe
    child,          \* "none", "alive", "zombie" (exited, not reaped), "reaped"
    exitCode,       \* exit status of the child once it has exited
    ignores,        \* signals the child ignores; Unknown until one reaches it
    sigPerm,        \* may this user signal the child's process group: "yes",
                    \* "no", or "unknown" until the first killpg
    dying,          \* the signal the child is shutting down on, or "none"
    pipe,           \* unread content of the child's stdout/stderr pipe
    written,        \* every line the child wrote (history)
    \* ---- LogMonitor object, its thread, the log file and the log timer
    logMonitor,     \* self.log_monitor is not None
    lmRunning,      \* LogMonitor.running
    lmPc,           \* position of the LogMonitor thread in run()
    lmCursor,       \* read cursor: number of file records fully consumed
    lmPart,         \* tokens already consumed of the record at the cursor
    lmOut,          \* lines emitted through log_signal, in order
    logTimer,       \* the single-shot log_timer is active
    logFile,        \* the log file exists
    logLines,       \* content of the log file
    logAttach,      \* number of records in the file at the last seek to end
    \* ---- objects the GUI no longer refers to
    orphans,        \* children of replaced ScriptRunners that are still alive
    lmOrphans,      \* replaced LogMonitor threads that are still running
    \* ---- a second file that matches logs/pdanet_*.log
    otherLog,       \* "none"; "older": it exists, and was created before the
                    \* log file of logLines; "touched": it was also written
                    \* to after the latest change of that file
    lmFile,         \* the file given to the LogMonitor: "main" or "other"
    \* ---- the suppression filters applied to one line
    fLine,          \* the line given to is_filtered_output and is_filtered_log
    fResult         \* what the two returned, or <<>> before the calls

guiVars    == <<guiPc, startBtn, stopBtn, stopping, status, scriptRunner,
                errorBoxes, startTry, warnings, session, delivered>>
runnerVars == <<running, process, runPc, runOut>>
stopVars   == <<stopPc, stopCalls, stopLog, sysOut, waited>>
childVars  == <<child, exitCode, ignores, sigPerm, dying, pipe, written>>
logVars    == <<logMonitor, lmRunning, lmPc, lmCursor, lmPart, lmOut, logTimer,
                logFile, logLines, logAttach>>
lostVars   == <<orphans, lmOrphans>>
filterVars == <<fLine, fResult>>
pickVars   == <<otherLog, lmFile>>
vars       == <<guiVars, runnerVars, stopVars, childVars, logVars, lostVars,
                filterVars, pickVars>>

----------------------------------------------------------------------------
(* Bounds of the model *)

\* lines one child writes to its pipe
MaxWrites == 2
\* ScriptRunner objects created (clicks on Start that pass the pre-checks)
MaxSessions == 2
\* error dialogs shown by start_tunnel
MaxErrors == 1
\* lines appended to the log file
MaxLogLines == 2
\* I/O errors raised while the log file is read
MaxIOErrors == 1
\* tokens of a line given to the two filters
MaxLineLen == 3

----------------------------------------------------------------------------
(* Text: lines, rstrip, the suppression filter *)

\* the whitespace token
WS == " "

\* str.lower() on a token, as re.IGNORECASE compares
Lower(tok) ==
    CASE tok = "[I]" -> "[i]"
      [] tok = "[E]" -> "[e]"
      [] tok = "IO TIMEOUT" -> "io timeout"
      [] tok = "0X1A2B" -> "0x1a2b"
      [] tok = "SOCKS5 SESSION HANDSHAKE" -> "socks5 session handshake"
      [] tok = "Socks5 Client Res.Rep 5" -> "socks5 client res.rep 5"
      [] OTHER -> tok

\* tokens matched by 0x[0-9a-fA-F]+
HexTokens == {"0x1a2b"}

\* filter_patterns: each pattern is the sequence of its parts, which the
\* regex joins with ".*"; a part is the set of (lower-cased) tokens it matches
FilterPatterns ==
    << << {"[i]"}, {"io timeout"} >>,
       << {"[i]"}, HexTokens, {"io timeout"} >>,
       << {"io timeout"} >>,
       << {"[i]"}, {"socks5 client udp construct"} >>,
       << {"[e]"}, {"socks5 client res.rep 5"} >>,
       << {"[e]"}, {"socks5 session handshake"} >> >>

\* re.search(pattern, line, re.IGNORECASE): the parts of the pattern occur in
\* the line in order, anything in between
RECURSIVE SearchFrom(_, _, _, _)
SearchFrom(pat, i, line, j) ==
    IF i > Len(pat) THEN TRUE
    ELSE IF j > Len(line) THEN FALSE
    ELSE IF Lower(line[j]) \in pat[i]
         THEN SearchFrom(pat, i + 1, line, j + 1) \/ SearchFrom(pat, i, line, j + 1)
         ELSE SearchFrom(pat, i, line, j + 1)

ReSearch(pat, line) == SearchFrom(pat, 1, line, 1)

\* ScriptRunner.is_filtered_output
IsFilteredOutput(line) ==
    \E k \in 1..Len(FilterPatterns) : ReSearch(FilterPatterns[k], line)

\* a list for the log that lacks the handshake rule
LogFilterPatterns_Short == SubSeq(FilterPatterns, 1, 5)

\* filter_patterns of LogMonitor.is_filtered_log
LogFilterPatterns ==
    << << {"[i]"}, {"io timeout"} >>,
       << {"[i]"}, HexTokens, {"io timeout"} >>,
       << {"io timeout"} >>,
       << {"[i]"}, {"socks5 client udp construct"} >>,
       << {"[e]"}, {"socks5 client res.rep 5"} >>,
       << {"[e]"}, {"socks5 session handshake"} >> >>

\* LogMonitor.is_filtered_log
IsFilteredLog(line) ==
    \E k \in 1..Len(LogFilterPatterns) : ReSearch(LogFilterPatterns[k], line)

\* str.rstrip() of one line: trailing whitespace (and the newline) removed
RECURSIVE RStrip(_)
RStrip(text) ==
    IF text = <<>> THEN <<>>
    ELSE IF text[Len(text)] = WS THEN RStrip(SubSeq(text, 1, Len(text) - 1))
    ELSE text

----------------------------------------------------------------------------
(* Signals emitted by the threads *)

\* one emitted Qt signal: sig is "output", "status" or "finished"; src tells a
\* line of the child's stream ("stream") from a message of run() itself
Ev(sig, src, text, code) == [sig |-> sig, src |-> src, text |-> text, code |-> code]
Output(text)  == Ev("output", "stream", text, 0)
ErrorOut(msg) == Ev("output", "runner", <<msg>>, 0)
Status(msg)   == Ev("status", "runner", <<msg>>, 0)
Finished(rc)  == Ev("finished", "runner", <<>>, rc)

Last(s) == s[Len(s)]

Count(seq, x) == Cardinality({i \in 1..Len(seq) : seq[i] = x})

\* the stream does not end in the middle of a line
EndsWithNewline(s) == IF s = <<>> THEN TRUE ELSE Last(s).nl

\* signal numbers; Popen.returncode is -signum for a child killed by a signal
SigNum(s) == CASE s = "SIGINT" -> 2 [] s = "SIGTERM" -> 15 [] s = "SIGKILL" -> 9
Signals == {"SIGINT", "SIGTERM", "SIGKILL"}

\* exit codes of a child that exits by itself
ExitCodes == {0, 1}

----------------------------------------------------------------------------
(* The child process and its pipe *)

\* lines the child may write
ChildLines ==
    { <<>>,
      <<"hello">>,
      <<"[I]", WS, "0x1a2b", WS, "io timeout">> }

\* what the script may do about signals: obey them, ignore SIGINT, or
\* ignore SIGINT and SIGTERM; which one shows when the first signal arrives
IgnoreSets == {{}, {"SIGINT"}, {"SIGINT", "SIGTERM"}}
Unknown == {"?"}

\* Popen.poll() is None
PollIsNone == child = "alive"

\* the child state after Popen.poll() / Popen.wait() found it exited: reaped
Reap(c) == IF c = "zombie" THEN "reaped" ELSE c

\* the pipe is at end of file: the write end is closed by the child's exit
PipeEOF == child # "alive"

\* the child writes one line of texts (or, at last, an unterminated one) to
\* the pipe
ChildWrite(texts) ==
    /\ guiPc # "closed"
    /\ child = "alive"
    /\ Len(written) < MaxWrites
    /\ EndsWithNewline(written)
    /\ \E t \in texts, nl \in BOOLEAN :
         /\ nl \/ t # <<>>
         /\ pipe' = Append(pipe, [text |-> t, nl |-> nl])
         /\ written' = Append(written, [text |-> t, nl |-> nl])
    /\ UNCHANGED <<child, exitCode, ignores, sigPerm, dying>>
    /\ UNCHANGED <<guiVars, runnerVars, stopVars, logVars>>
    /\ UNCHANGED <<lostVars, filterVars, pickVars>>

\* the child exits: by itself, or shutting down on the signal it received
ChildExit ==
    /\ guiPc # "closed"
    /\ child = "alive"
    /\ child' = "zombie"
    /\ IF dying # "none"
       THEN exitCode' = 0 - SigNum(dying)
       ELSE exitCode' \in ExitCodes
    /\ UNCHANGED <<ignores, sigPerm, dying, pipe, written>>
    /\ UNCHANGED <<guiVars, runnerVars, stopVars, logVars>>
    /\ UNCHANGED <<lostVars, filterVars, pickVars>>

\* effect of a signal that reached the process group of a child that
\* ignores the signals of ign: SIGKILL ends it at once, a signal it does not
\* ignore makes it shut down and exit later, a zombie is not affected
ChildAfterSignal(sig, ign) ==
    IF child # "alive" THEN [child |-> child, exitCode |-> exitCode, dying |-> dying]
    ELSE IF sig = "SIGKILL"
         THEN [child |-> "zombie", exitCode |-> 0 - SigNum(sig), dying |-> sig]
    ELSE IF sig \notin ign /\ dying = "none"
         THEN [child |-> child, exitCode |-> exitCode, dying |-> sig]
    ELSE [child |-> child, exitCode |-> exitCode, dying |-> dying]

----------------------------------------------------------------------------
(* ScriptRunner.run *)

\* should run() forward this (stripped) line of the read loop
LoopForwards(stripped) == ~IsFilteredOutput(stripped)

\* a drain of the remaining output that forgets the filter
DrainForwards_NoFilter(line) == line # <<>>

\* should run() forward this line of the remaining output
DrainForwards(line) == line # <<>> /\ ~IsFilteredOutput(line)

\* remaining_output.rstrip().split('\n'): the lines of the remaining output
\* whose end is stripped as one string
RECURSIVE RStripAll(_)
RStripAll(recs) ==
    IF recs = <<>> THEN <<>>
    ELSE IF RStrip(Last(recs).text) = <<>>
         THEN RStripAll(SubSeq(recs, 1, Len(recs) - 1))
    ELSE [i \in 1..Len(recs) |->
            IF i = Len(recs) THEN RStrip(recs[i].text) ELSE recs[i].text]

RemainingLines(recs) == RStripAll(recs)

\* the output signals of the final drain
DrainOutputs(recs) ==
    LET lines == SelectSeq(RemainingLines(recs), DrainForwards)
    IN  [i \in 1..Len(lines) |-> Output(lines[i])]

\* run(), lines 61-62
RunBegin ==
    /\ guiPc # "closed"
    /\ runPc = "start"
    /\ running' = TRUE
    /\ runOut' = Append(runOut, Status("Tunnel enabled."))
    /\ runPc' = "popen"
    /\ UNCHANGED process
    /\ UNCHANGED <<guiVars, stopVars, childVars, logVars>>
    /\ UNCHANGED <<lostVars, filterVars, pickVars>>

\* run(), lines 65-73: Popen succeeds and the child runs in its own group
RunPopen ==
    /\ guiPc # "closed"
    /\ runPc = "popen"
    /\ process' = TRUE
    /\ child' = "alive"
    /\ runPc' = "loop"
    /\ UNCHANGED <<running, runOut, exitCode, ignores, sigPerm, dying, pipe, written>>
    /\ UNCHANGED <<guiVars, stopVars, logVars>>
    /\ UNCHANGED <<lostVars, filterVars, pickVars>>

\* run(), lines 66 and 96-99: Popen raises
RunPopenFails ==
    /\ guiPc # "closed"
    /\ runPc = "popen"
    /\ runOut' = runOut \o <<ErrorOut("Error: Popen"), Status("Error occurred"),
                             Finished(1)>>
    /\ runPc' = "done"
    /\ UNCHANGED <<running, process>>
    /\ UNCHANGED <<guiVars, stopVars, childVars, logVars>>
    /\ UNCHANGED <<lostVars, filterVars, pickVars>>

\* run(), line 76: the loop condition; poll() is called only when running
RunLoopCheck ==
    /\ guiPc # "closed"
    /\ runPc = "loop"
    /\ IF running
       THEN /\ child' = Reap(child)
            /\ runPc' = IF PollIsNone THEN "readline" ELSE "postloop"
       ELSE /\ child' = child
            /\ runPc' = "postloop"
    /\ UNCHANGED <<running, process, runOut>>
    /\ UNCHANGED <<exitCode, ignores, sigPerm, dying, pipe, written>>
    /\ UNCHANGED <<guiVars, stopVars, logVars>>
    /\ UNCHANGED <<lostVars, filterVars, pickVars>>

\* run(), lines 77-82: readline() blocks until a whole line or end of file
RunReadline ==
    /\ guiPc # "closed"
    /\ runPc = "readline"
    /\ \/ pipe # <<>> /\ pipe[1].nl
       \/ PipeEOF
    /\ IF pipe = <<>>
       THEN UNCHANGED <<pipe, runOut>>
       ELSE /\ pipe' = Tail(pipe)
            /\ runOut' = IF LoopForwards(RStrip(pipe[1].text))
                         THEN Append(runOut, Output(RStrip(pipe[1].text)))
                         ELSE runOut
    /\ runPc' = "loop"
    /\ UNCHANGED <<running, process>>
    /\ UNCHANGED <<child, exitCode, ignores, sigPerm, dying, written>>
    /\ UNCHANGED <<guiVars, stopVars, logVars>>
    /\ UNCHANGED <<lostVars, filterVars, pickVars>>

\* does run() report the termination after the loop (line 85)
ReportsExit(c) == c # "alive"

\* the code carried by finished_signal (line 94)
FinishedCode(rc) == rc

\* run(), lines 85-94: the remaining output and the termination event
RunPostLoop ==
    /\ guiPc # "closed"
    /\ runPc = "postloop"
    /\ IF ReportsExit(child)
       THEN /\ child' = Reap(child)
            /\ pipe' = IF PipeEOF THEN <<>> ELSE pipe
            /\ runOut' = Append(runOut \o DrainOutputs(IF PipeEOF THEN pipe ELSE <<>>),
                                Finished(FinishedCode(exitCode)))
       ELSE UNCHANGED <<child, pipe, runOut>>
    /\ runPc' = "done"
    /\ UNCHANGED <<running, process>>
    /\ UNCHANGED <<exitCode, ignores, sigPerm, dying, written>>
    /\ UNCHANGED <<guiVars, stopVars, logVars>>
    /\ UNCHANGED <<lostVars, filterVars, pickVars>>

----------------------------------------------------------------------------
(* ScriptRunner.stop, executed by the thread that called it (the GUI thread) *)

\* wait(timeout=10) and wait(timeout=3), in seconds
GracefulTimeout == 10
TermTimeout == 3

\* os.killpg(os.getpgid(pid), sig): getpgid raises ProcessLookupError once the
\* child has been reaped; killpg raises PermissionError when the user may not
\* signal the group; a signal to a zombie is accepted and does nothing
Killpg(perm) == IF child = "reaped" THEN "lookup"
                ELSE IF perm = "yes" THEN "ok" ELSE "error"

\* line 104: is there a live process to shut down
StopGuard(proc, pollNone) == proc /\ pollNone

\* a stop() that reports every exception of killpg as an error
ExceptLine_AllErrors(outcome) == "[SYSTEM] Error stopping process"

\* lines 130-134: the line stop() emits for an exception of killpg
ExceptLine(outcome) ==
    IF outcome = "lookup" THEN "[SYSTEM] Process already terminated"
    ELSE "[SYSTEM] Error stopping process"

\* a stop() that gives up when the 10 s wait times out
AfterGraceful_GivesUp(exited) == "done"

\* a stop() that sends SIGTERM whether the 10 s wait timed out or not
AfterGraceful_Always(exited) == "sigterm"

\* lines 113-119: after wait(timeout=10)
AfterGraceful(exited) == IF exited THEN "done" ELSE "sigterm"

\* lines 120-126: after wait(timeout=3)
AfterTerm(exited) == IF exited THEN "done" ELSE "sigkill"

\* a stop() that sends SIGTERM right after SIGINT, without the 10 s wait
AfterKillpg_NoWait(outcome, next) ==
    IF outcome # "ok" THEN "done"
    ELSE IF next = "wait10" THEN "sigterm" ELSE next

\* where stop() goes after killpg, lines 109-134
AfterKillpg(outcome, next) == IF outcome = "ok" THEN next ELSE "done"

InStop == guiPc \in {"stop_runner", "close_runner"}

\* lines 103-106
StopEntry ==
    /\ InStop /\ stopPc = "entry"
    /\ running' = FALSE
    /\ IF process THEN child' = Reap(child) ELSE child' = child
    /\ IF StopGuard(process, PollIsNone)
       THEN /\ sysOut' = Append(sysOut, "[SYSTEM] Sending SIGINT (Ctrl+C) to tunnel process...")
            /\ stopPc' = "sigint"
       ELSE /\ sysOut' = sysOut
            /\ stopPc' = "done"
    /\ UNCHANGED <<process, runPc, runOut, stopCalls, stopLog, waited>>
    /\ UNCHANGED <<exitCode, ignores, sigPerm, dying, pipe, written>>
    /\ UNCHANGED <<guiVars, logVars>>
    /\ UNCHANGED <<lostVars, filterVars, pickVars>>

\* one killpg call of stop(): at position pc, signal sig, then the line said
\* and the position next
StopKill(pc, sig, said, next) ==
    /\ InStop /\ stopPc = pc
    /\ \E perm \in IF sigPerm = "unknown" /\ child # "reaped"
                    THEN {"yes", "no"} ELSE {sigPerm},
          ign \in IF ignores = Unknown /\ child = "alive"
                   THEN IgnoreSets ELSE {ignores} :
         LET o == Killpg(perm)
             c == ChildAfterSignal(sig, ign)
         IN  /\ stopPc' = AfterKillpg(o, next)
             /\ sigPerm' = perm
             /\ ignores' = ign
             /\ IF o = "ok"
                THEN /\ stopLog' = Append(stopLog, sig)
                     /\ sysOut' = IF said = "" THEN sysOut ELSE Append(sysOut, said)
                     /\ child' = c.child
                     /\ exitCode' = c.exitCode
                     /\ dying' = c.dying
                ELSE /\ stopLog' = Append(stopLog, o)
                     /\ sysOut' = Append(sysOut, ExceptLine(o))
                     /\ UNCHANGED <<child, exitCode, dying>>
    /\ UNCHANGED <<stopCalls, waited, pipe, written>>
    /\ UNCHANGED <<guiVars, runnerVars, logVars>>
    /\ UNCHANGED <<lostVars, filterVars, pickVars>>

\* one bounded wait of stop(): Popen.wait(timeout) returns once the child has
\* exited (and reaps it), or raises TimeoutExpired with the child still alive
StopWait(pc, timeout, tag, saidExit, saidTimeout, next) ==
    /\ InStop /\ stopPc = pc
    /\ LET exited == ~PollIsNone
       IN  /\ stopPc' = next
           /\ child' = Reap(child)
           /\ stopLog' = Append(stopLog, IF exited THEN "exit" ELSE tag)
           /\ sysOut' = Append(sysOut, IF exited THEN saidExit ELSE saidTimeout)
           /\ waited' = IF exited THEN waited ELSE waited + timeout
    /\ UNCHANGED <<stopCalls, exitCode, ignores, sigPerm, dying, pipe, written>>
    /\ UNCHANGED <<guiVars, runnerVars, logVars>>
    /\ UNCHANGED <<lostVars, filterVars, pickVars>>

\* lines 109-112
StopSigint ==
    StopKill("sigint", "SIGINT", "[SYSTEM] Waiting for clean shutdown...", "wait10")

\* lines 113-117
StopWaitGraceful ==
    StopWait("wait10", GracefulTimeout, "timeout10",
             "[SYSTEM] Process stopped cleanly",
             "[SYSTEM] Clean shutdown timeout, forcing termination...",
             AfterGraceful(~PollIsNone))

\* line 119
StopSigterm == StopKill("sigterm", "SIGTERM", "", "wait3")

\* lines 120-125
StopWaitTerm ==
    StopWait("wait3", TermTimeout, "timeout3",
             "[SYSTEM] Process terminated",
             "[SYSTEM] Force killing process...",
             AfterTerm(~PollIsNone))

\* line 126
StopSigkill == StopKill("sigkill", "SIGKILL", "", "waitkill")

\* lines 127-128: wait() without timeout returns only when the child exited
StopWaitKill ==
    /\ InStop /\ stopPc = "waitkill"
    /\ ~PollIsNone
    /\ child' = Reap(child)
    /\ stopLog' = Append(stopLog, "exit")
    /\ sysOut' = Append(sysOut, "[SYSTEM] Process killed")
    /\ stopPc' = "done"
    /\ UNCHANGED <<stopCalls, waited, exitCode, ignores, sigPerm, dying, pipe, written>>
    /\ UNCHANGED <<guiVars, runnerVars, logVars>>
    /\ UNCHANGED <<lostVars, filterVars, pickVars>>

----------------------------------------------------------------------------
(* PDNRWTGui: start_tunnel *)

\* QThread.isRunning() of the ScriptRunner: from start() until run() returns
RunnerIsRunning == scriptRunner /\ runPc # "done"

\* QThread.isRunning() of the LogMonitor
MonitorIsRunning == logMonitor /\ lmPc # "done"

\* outcomes of subprocess.run(['sudo', '-n', 'true'])
SudoOutcomes == {"ok", "nonzero", "exception"}

\* pre-checks that do not look at the return code of sudo
PrecheckPasses_AnyReturnCode(scriptExists, sudo) == scriptExists /\ sudo # "exception"

\* lines 332-345: do the pre-checks of start_tunnel pass
PrecheckPasses(scriptExists, sudo) == scriptExists /\ sudo = "ok"

\* what the pre-checks found: sudo is not run when the script is missing
Precheck(scriptExists, sudo) == IF scriptExists THEN sudo ELSE "missing"

\* lines 332-345: a pre-check fails: the error is shown, nothing else happens
StartTunnelFails ==
    /\ guiPc = "idle" /\ startBtn
    /\ errorBoxes < MaxErrors
    /\ \E scriptExists \in BOOLEAN, sudo \in SudoOutcomes :
         /\ ~PrecheckPasses(scriptExists, sudo)
         /\ startTry' = Precheck(scriptExists, sudo)
    /\ errorBoxes' = errorBoxes + 1
    /\ UNCHANGED <<guiPc, startBtn, stopBtn, stopping, status, scriptRunner,
                   warnings, session, delivered>>
    /\ UNCHANGED <<runnerVars, stopVars, childVars, logVars>>
    /\ UNCHANGED <<lostVars, filterVars, pickVars>>

\* lines 347-371: the pre-checks pass: a new ScriptRunner is created and
\* started, the single-shot log timer is created and started
StartTunnel ==
    /\ guiPc = "idle" /\ startBtn
    /\ session < MaxSessions
    /\ \E scriptExists \in BOOLEAN, sudo \in SudoOutcomes :
         /\ PrecheckPasses(scriptExists, sudo)
         /\ startTry' = Precheck(scriptExists, sudo)
    /\ startBtn' = FALSE
    /\ stopBtn' = TRUE
    /\ stopping' = FALSE
    /\ status' = "Tunnel enabled."
    /\ scriptRunner' = TRUE
    /\ session' = session + 1
    /\ errorBoxes' = 0
    /\ delivered' = 0
    /\ warnings' = <<>>
    \* ScriptRunner.__init__ and QThread.start()
    /\ running' = FALSE
    /\ process' = FALSE
    /\ runPc' = "start"
    /\ runOut' = <<>>
    /\ stopPc' = "idle"
    /\ stopCalls' = 0
    /\ stopLog' = <<>>
    /\ sysOut' = <<>>
    /\ waited' = 0
    \* the new ScriptRunner has no child yet
    /\ child' = "none"
    /\ exitCode' = 0
    /\ ignores' = Unknown
    /\ sigPerm' = "unknown"
    /\ dying' = "none"
    /\ pipe' = <<>>
    /\ written' = <<>>
    /\ logTimer' = TRUE
    \* the child of the ScriptRunner that is replaced lives on
    /\ orphans' = IF child = "alive" THEN orphans + 1 ELSE orphans
    /\ UNCHANGED guiPc
    /\ UNCHANGED <<logMonitor, lmRunning, lmPc, lmCursor, lmPart, lmOut,
                   logFile, logLines, logAttach>>
    /\ UNCHANGED <<lmOrphans, filterVars, pickVars>>

----------------------------------------------------------------------------
(* PDNRWTGui: stop_tunnel *)

\* lines 375-376: is this stop request dropped
StopIgnored(flag) == flag

\* lines 375-384: the Stop button is clicked
StopTunnel ==
    /\ guiPc = "idle" /\ stopBtn
    /\ IF StopIgnored(stopping)
       THEN UNCHANGED <<guiPc, stopBtn, stopping, status, stopPc, stopCalls>>
       ELSE /\ stopping' = TRUE
            /\ stopBtn' = FALSE
            /\ status' = "Stopping tunnel..."
            /\ IF RunnerIsRunning
               THEN /\ guiPc' = "stop_runner"
                    /\ stopPc' = "entry"
                    /\ stopCalls' = stopCalls + 1
               ELSE /\ guiPc' = "stop_log"
                    /\ UNCHANGED <<stopPc, stopCalls>>
    /\ UNCHANGED <<startBtn, scriptRunner, errorBoxes, startTry, warnings, session,
                   delivered>>
    /\ UNCHANGED <<stopLog, sysOut, waited>>
    /\ UNCHANGED <<runnerVars, childVars, logVars>>
    /\ UNCHANGED <<lostVars, filterVars, pickVars>>

\* lines 386-387: stop() has returned; wait(12000) for the thread
StopTunnelWaitRunner ==
    /\ guiPc = "stop_runner" /\ stopPc = "done"
    /\ warnings' = IF runPc = "done" THEN warnings
                   ELSE Append(warnings, "[SYSTEM] Warning: Script thread did not stop cleanly")
    /\ guiPc' = "stop_log"
    /\ stopPc' = "idle"
    /\ UNCHANGED <<startBtn, stopBtn, stopping, status, scriptRunner, errorBoxes,
                   startTry, session, delivered>>
    /\ UNCHANGED <<stopCalls, stopLog, sysOut, waited>>
    /\ UNCHANGED <<runnerVars, childVars, logVars>>
    /\ UNCHANGED <<lostVars, filterVars, pickVars>>

\* a reset that leaves the stopping flag set
UiReset_KeepsStopping ==
    /\ startBtn' = TRUE
    /\ stopBtn' = FALSE
    /\ stopping' = stopping
    /\ status' = "Tunnel stopped."
    /\ guiPc' = "idle"

\* lines 396-399
UiReset ==
    /\ startBtn' = TRUE
    /\ stopBtn' = FALSE
    /\ stopping' = FALSE
    /\ status' = "Tunnel stopped."
    /\ guiPc' = "idle"

\* lines 390-391 (and 396-400 when there is no running log monitor)
StopTunnelLog ==
    /\ guiPc = "stop_log"
    /\ IF MonitorIsRunning
       THEN /\ lmRunning' = FALSE
            /\ guiPc' = "wait_log"
            /\ UNCHANGED <<startBtn, stopBtn, stopping, status>>
       ELSE /\ lmRunning' = lmRunning
            /\ UiReset
    /\ UNCHANGED <<scriptRunner, errorBoxes, startTry, warnings, session, delivered>>
    /\ UNCHANGED <<logMonitor, lmPc, lmCursor, lmPart, lmOut, logTimer, logFile,
                   logLines, logAttach>>
    /\ UNCHANGED <<runnerVars, stopVars, childVars>>
    /\ UNCHANGED <<lostVars, filterVars, pickVars>>

\* lines 392-400: wait(3000) for the log monitor, then the UI is reset
StopTunnelWaitLog ==
    /\ guiPc = "wait_log"
    /\ warnings' = IF lmPc = "done" THEN warnings
                   ELSE Append(warnings, "[SYSTEM] Warning: Log monitor did not stop cleanly")
    /\ UiReset
    /\ UNCHANGED <<scriptRunner, errorBoxes, startTry, session, delivered>>
    /\ UNCHANGED <<runnerVars, stopVars, childVars, logVars>>
    /\ UNCHANGED <<lostVars, filterVars, pickVars>>

----------------------------------------------------------------------------
(* PDNRWTGui: closeEvent *)

\* lines 441-445
CloseEvent ==
    /\ guiPc = "idle"
    /\ logTimer' = FALSE
    /\ IF RunnerIsRunning
       THEN /\ guiPc' = "close_runner"
            /\ stopPc' = "entry"
            /\ stopCalls' = stopCalls + 1
       ELSE /\ guiPc' = "close_log"
            /\ UNCHANGED <<stopPc, stopCalls>>
    /\ UNCHANGED <<startBtn, stopBtn, stopping, status, scriptRunner, errorBoxes,
                   startTry, warnings, session, delivered>>
    /\ UNCHANGED <<stopLog, sysOut, waited>>
    /\ UNCHANGED <<logMonitor, lmRunning, lmPc, lmCursor, lmPart, lmOut, logFile,
                   logLines, logAttach>>
    /\ UNCHANGED <<runnerVars, childVars>>
    /\ UNCHANGED <<lostVars, filterVars, pickVars>>

\* line 446: stop() has returned; wait(5000) for the thread
CloseWaitRunner ==
    /\ guiPc = "close_runner" /\ stopPc = "done"
    /\ guiPc' = "close_log"
    /\ stopPc' = "idle"
    /\ UNCHANGED <<startBtn, stopBtn, stopping, status, scriptRunner, errorBoxes,
                   startTry, warnings, session, delivered>>
    /\ UNCHANGED <<stopCalls, stopLog, sysOut, waited>>
    /\ UNCHANGED <<runnerVars, childVars, logVars>>
    /\ UNCHANGED <<lostVars, filterVars, pickVars>>

\* lines 448-452: the log monitor is stopped and waited for; the event is
\* accepted and the application ends
CloseLog ==
    /\ guiPc = "close_log"
    /\ lmRunning' = IF MonitorIsRunning THEN FALSE ELSE lmRunning
    /\ guiPc' = "closed"
    /\ UNCHANGED <<startBtn, stopBtn, stopping, status, scriptRunner, errorBoxes,
                   startTry, warnings, session, delivered>>
    /\ UNCHANGED <<logMonitor, lmPc, lmCursor, lmPart, lmOut, logTimer, logFile,
                   logLines, logAttach>>
    /\ UNCHANGED <<runnerVars, stopVars, childVars>>
    /\ UNCHANGED <<lostVars, filterVars, pickVars>>

----------------------------------------------------------------------------
(* PDNRWTGui: the slots of the ScriptRunner's queued signals *)

\* lines 429-437: is the UI updated by script_finished
FinishedUpdatesUi(flag) == ~flag

\* lines 434-437
FinishedStatus(rc) ==
    IF rc = 0 THEN "Tunnel completed successfully" ELSE "Tunnel exited with code"

\* the event loop hands the next queued signal of run() to its slot:
\* append_output (402-424), update_status (426-427), script_finished (429-437)
Deliver ==
    /\ guiPc = "idle"
    /\ delivered < Len(runOut)
    /\ delivered' = delivered + 1
    /\ LET e == runOut[delivered + 1]
       IN  CASE e.sig = "status" ->
                  /\ status' = e.text[1]
                  /\ UNCHANGED <<startBtn, stopBtn>>
             [] e.sig = "finished" /\ FinishedUpdatesUi(stopping) ->
                  /\ startBtn' = TRUE
                  /\ stopBtn' = FALSE
                  /\ status' = FinishedStatus(e.code)
             [] OTHER -> UNCHANGED <<startBtn, stopBtn, status>>
    /\ UNCHANGED <<guiPc, stopping, scriptRunner, errorBoxes, startTry, warnings,
                   session>>
    /\ UNCHANGED <<runnerVars, stopVars, childVars, logVars>>
    /\ UNCHANGED <<lostVars, filterVars, pickVars>>

----------------------------------------------------------------------------
(* The log file and its writer (the tunnel script) *)

\* lines the script may append to its log
LogTexts ==
    { <<"tcp", WS, "connected">>,
      <<"[E]", WS, "SOCKS5 SESSION HANDSHAKE">> }

\* the script creates <workspace>/logs/pdanet_*.log
LogCreate ==
    /\ guiPc # "closed"
    /\ ~logFile
    /\ child = "alive"
    /\ logFile' = TRUE
    /\ UNCHANGED <<logMonitor, lmRunning, lmPc, lmCursor, lmPart, lmOut, logTimer,
                   logLines, logAttach>>
    /\ UNCHANGED <<guiVars, runnerVars, stopVars, childVars>>
    /\ otherLog' = IF otherLog = "touched" THEN "older" ELSE otherLog
    /\ UNCHANGED <<lostVars, filterVars, lmFile>>

\* the script appends a line to the log; the write of a line may reach the
\* file in two parts, the first k tokens and then the rest with the newline
LogWrite ==
    /\ guiPc # "closed"
    /\ logFile
    /\ Len(logLines) < MaxLogLines
    /\ EndsWithNewline(logLines)
    /\ \E t \in LogTexts : \E k \in {1, Len(t)} :
         /\ logLines' = Append(logLines,
                               [text |-> SubSeq(t, 1, k), nl |-> k = Len(t),
                                rest |-> SubSeq(t, k + 1, Len(t))])
    /\ UNCHANGED <<logMonitor, lmRunning, lmPc, lmCursor, lmPart, lmOut, logTimer,
                   logFile, logAttach>>
    /\ UNCHANGED <<guiVars, runnerVars, stopVars, childVars>>
    /\ otherLog' = IF otherLog = "touched" THEN "older" ELSE otherLog
    /\ UNCHANGED <<lostVars, filterVars, lmFile>>

\* the rest of a line written in two parts reaches the file
LogWriteRest ==
    /\ guiPc # "closed"
    /\ ~EndsWithNewline(logLines)
    /\ logLines' = [logLines EXCEPT ![Len(logLines)] =
                      [text |-> @.text \o @.rest, nl |-> TRUE, rest |-> <<>>]]
    /\ UNCHANGED <<logMonitor, lmRunning, lmPc, lmCursor, lmPart, lmOut, logTimer,
                   logFile, logAttach>>
    /\ UNCHANGED <<guiVars, runnerVars, stopVars, childVars>>
    /\ otherLog' = IF otherLog = "touched" THEN "older" ELSE otherLog
    /\ UNCHANGED <<lostVars, filterVars, lmFile>>

\* the script creates another file that matches logs/pdanet_*.log, before it
\* creates the log file above
OtherLogCreate ==
    /\ guiPc # "closed"
    /\ child = "alive"
    /\ ~logFile /\ otherLog = "none"
    /\ otherLog' = "older"
    /\ UNCHANGED <<guiVars, runnerVars, stopVars, childVars, logVars>>
    /\ UNCHANGED <<lostVars, filterVars, lmFile>>

\* the script appends to that other file: the file's ctime is set
OtherLogWrite ==
    /\ guiPc # "closed"
    /\ child = "alive"
    /\ logFile /\ otherLog = "older"
    /\ otherLog' = "touched"
    /\ UNCHANGED <<guiVars, runnerVars, stopVars, childVars, logVars>>
    /\ UNCHANGED <<lostVars, filterVars, lmFile>>

----------------------------------------------------------------------------
(* PDNRWTGui.start_log_monitoring and LogMonitor *)

\* glob.glob(log_pattern) is not empty (lines 317-318)
GlobFinds(mainExists, other) == mainExists \/ other # "none"

\* max(log_files, key=os.path.getctime) (line 319): os.path.getctime is
\* st_ctime, on Unix the time of the latest change of the file
LatestLog(mainExists, other) ==
    IF ~mainExists THEN "other"
    ELSE IF other = "touched" THEN "other"
    ELSE "main"

\* os.path.exists(self.log_file) (line 167)
TailedExists == IF lmFile = "main" THEN logFile ELSE otherLog # "none"

\* content of the file the LogMonitor was given; the lines of the other
\* file are not modelled
TailedLines == IF lmFile = "main" THEN logLines ELSE <<>>

\* lines 315-327: the log timer fires; glob finds the log file or not
StartLogMonitoring ==
    /\ guiPc = "idle"
    /\ logTimer
    /\ IF GlobFinds(logFile, otherLog)
       THEN \* LogMonitor(latest_log).start(); the LogMonitor that
            \* self.log_monitor referred to is not stopped
            /\ logMonitor' = TRUE
            /\ lmFile' = LatestLog(logFile, otherLog)
            /\ lmRunning' = FALSE
            /\ lmPc' = "start"
            /\ logTimer' = FALSE
            /\ lmOrphans' = IF MonitorIsRunning THEN lmOrphans + 1 ELSE lmOrphans
       ELSE \* self.log_timer.start(2000)
            /\ logTimer' = TRUE
            /\ UNCHANGED <<logMonitor, lmRunning, lmPc, lmOrphans, lmFile>>
    /\ UNCHANGED <<lmCursor, lmPart, lmOut, logFile, logLines, logAttach>>
    /\ UNCHANGED <<guiVars, runnerVars, stopVars, childVars>>
    /\ UNCHANGED <<orphans, filterVars, otherLog>>

\* LogMonitor.run, line 165
LmBegin ==
    /\ guiPc # "closed"
    /\ logMonitor /\ lmPc = "start"
    /\ lmRunning' = TRUE
    /\ lmPc' = "check"
    /\ UNCHANGED <<logMonitor, lmCursor, lmPart, lmOut, logTimer, logFile,
                   logLines, logAttach>>
    /\ UNCHANGED <<guiVars, runnerVars, stopVars, childVars>>
    /\ UNCHANGED <<lostVars, filterVars, pickVars>>

\* an open that leaves the cursor at the start of the file
SeekEnd_Rewind(lines) == [cursor |-> 0, part |-> 0]

\* f.seek(0, 2): the cursor at the end of the file
SeekEnd(lines) ==
    IF EndsWithNewline(lines)
    THEN [cursor |-> Len(lines), part |-> 0]
    ELSE [cursor |-> Len(lines) - 1, part |-> Len(Last(lines).text)]

\* LogMonitor.run, lines 166-171 and 181-182: the outer loop; the file is
\* opened and the cursor put at its end, or the thread sleeps and retries
LmCheck ==
    /\ guiPc # "closed"
    /\ logMonitor /\ lmPc = "check"
    /\ IF ~lmRunning
       THEN /\ lmPc' = "done"
            /\ UNCHANGED <<lmCursor, lmPart, logAttach>>
       ELSE IF TailedExists
       THEN /\ lmPc' = "follow"
            /\ lmCursor' = SeekEnd(TailedLines).cursor
            /\ lmPart' = SeekEnd(TailedLines).part
            /\ logAttach' = Len(TailedLines)
       ELSE /\ lmPc' = "check"
            /\ UNCHANGED <<lmCursor, lmPart, logAttach>>
    /\ lmPc' # lmPc
    /\ UNCHANGED <<logMonitor, lmRunning, lmOut, logTimer, logFile, logLines>>
    /\ UNCHANGED <<guiVars, runnerVars, stopVars, childVars>>
    /\ UNCHANGED <<lostVars, filterVars, pickVars>>

\* should the follow loop forward this (stripped) line
LogForwards(stripped) == ~IsFilteredLog(stripped)

\* LogMonitor.run, lines 172-180: the inner loop; readline() returns the
\* text up to the next newline, or up to the end of the file
LmFollow ==
    /\ guiPc # "closed"
    /\ logMonitor /\ lmPc = "follow"
    /\ IF ~lmRunning
       THEN /\ lmPc' = "check"
            /\ UNCHANGED <<lmCursor, lmPart, lmOut>>
       ELSE /\ lmCursor < Len(TailedLines)
            /\ LET rec == TailedLines[lmCursor + 1]
                   got == SubSeq(rec.text, lmPart + 1, Len(rec.text))
               IN  /\ rec.nl \/ got # <<>>
                   /\ lmOut' = IF LogForwards(RStrip(got))
                               THEN Append(lmOut, RStrip(got)) ELSE lmOut
                   /\ lmCursor' = IF rec.nl THEN lmCursor + 1 ELSE lmCursor
                   /\ lmPart' = IF rec.nl THEN 0 ELSE Len(rec.text)
            /\ lmPc' = "follow"
    /\ UNCHANGED <<logMonitor, lmRunning, logTimer, logFile, logLines, logAttach>>
    /\ UNCHANGED <<guiVars, runnerVars, stopVars, childVars>>
    /\ UNCHANGED <<lostVars, filterVars, pickVars>>

\* line 184
IOErrorLine == <<"Log monitor error">>

\* a LogMonitor that ends on a read error
AfterReadError_Ends == "done"

\* lines 183-185: the handler is inside the outer loop, which goes on
AfterReadError == "check"

\* LogMonitor.run, lines 183-185: reading raises; the error is reported and
\* the outer loop starts over
LmReadError ==
    /\ guiPc # "closed"
    /\ logMonitor /\ lmPc = "follow" /\ lmRunning
    /\ Count(lmOut, IOErrorLine) < MaxIOErrors
    /\ lmOut' = Append(lmOut, IOErrorLine)
    /\ lmPc' = AfterReadError
    /\ UNCHANGED <<logMonitor, lmRunning, lmCursor, lmPart, logTimer, logFile,
                   logLines, logAttach>>
    /\ UNCHANGED <<guiVars, runnerVars, stopVars, childVars>>
    /\ UNCHANGED <<lostVars, filterVars, pickVars>>

----------------------------------------------------------------------------
(* The two filters applied to one line *)

\* tokens of the lines given to the filters: the parts of the patterns in
\* both cases, near misses of them, and other text
FilterTokens ==
    { "[I]", "[i]", "[E]", "[e]", "[D]", WS,
      "0x1a2b", "0X1A2B", "0xzz",
      "io timeout", "IO TIMEOUT",
      "socks5 client udp construct",
      "socks5 client res.rep 5", "Socks5 Client Res.Rep 5", "socks5 client resXrep 5",
      "socks5 session handshake", "SOCKS5 SESSION HANDSHAKE",
      "hello" }

\* the lines of at most MaxLineLen tokens
TestLines ==
    UNION { [1..n -> FilterTokens] : n \in 0..MaxLineLen }

\* is_filtered_output(line) and is_filtered_log(line) are called
ApplyFilters ==
    /\ fResult = <<>>
    /\ fResult' = << IsFilteredOutput(fLine), IsFilteredLog(fLine) >>
    /\ UNCHANGED <<guiVars, runnerVars, stopVars, childVars, logVars>>
    /\ UNCHANGED <<lostVars, fLine, pickVars>>

----------------------------------------------------------------------------
(* The specifications *)

\* the program after construction: no runner, no monitor, no child, no log
InitProgram ==
    /\ guiPc = "idle"
    /\ startBtn = TRUE
    /\ stopBtn = FALSE
    /\ stopping = FALSE
    /\ status = "Ready."
    /\ scriptRunner = FALSE
    /\ errorBoxes = 0
    /\ startTry = "none"
    /\ warnings = <<>>
    /\ session = 0
    /\ delivered = 0
    /\ running = FALSE
    /\ process = FALSE
    /\ runPc = "none"
    /\ runOut = <<>>
    /\ stopPc = "idle"
    /\ stopCalls = 0
    /\ stopLog = <<>>
    /\ sysOut = <<>>
    /\ waited = 0
    /\ child = "none"
    /\ exitCode = 0
    /\ ignores = Unknown
    /\ sigPerm = "unknown"
    /\ dying = "none"
    /\ pipe = <<>>
    /\ written = <<>>
    /\ logMonitor = FALSE
    /\ lmRunning = FALSE
    /\ lmPc = "none"
    /\ lmCursor = 0
    /\ lmPart = 0
    /\ lmOut = <<>>
    /\ logTimer = FALSE
    /\ logFile = FALSE
    /\ logLines = <<>>
    /\ logAttach = 0
    /\ orphans = 0
    /\ lmOrphans = 0
    /\ otherLog = "none"
    /\ lmFile = "main"

Init ==
    /\ InitProgram
    /\ fLine = <<>>
    /\ fResult = <<>>

\* any line is given to the two filters, nothing else runs
InitFilter ==
    /\ InitProgram
    /\ fLine \in TestLines
    /\ fResult = <<>>

NextFilter == ApplyFilters

SpecFilter == InitFilter /\ [][NextFilter]_vars

\* lines of the child in the specifications about stop() and the GUI
PlainLines == { <<"hello">> }

\* steps of the ScriptRunner thread
RunnerThread ==
    \/ RunBegin
    \/ RunPopen
    \/ RunPopenFails
    \/ RunLoopCheck
    \/ RunReadline
    \/ RunPostLoop

\* steps of ScriptRunner.stop()
StopSteps ==
    \/ StopEntry
    \/ StopSigint
    \/ StopWaitGraceful
    \/ StopSigterm
    \/ StopWaitTerm
    \/ StopSigkill
    \/ StopWaitKill

\* steps of stop_tunnel
StopTunnelSteps ==
    \/ StopTunnel
    \/ StopTunnelWaitRunner
    \/ StopTunnelLog

\* the ScriptRunner streaming the output of a child that writes any of
\* ChildLines, started and stopped from the GUI
NextRunner ==
    \/ StartTunnel
    \/ RunnerThread
    \/ ChildWrite(ChildLines)
    \/ ChildExit
    \/ StopTunnelSteps
    \/ StopSteps

SpecRunner == Init /\ [][NextRunner]_vars

\* stop() against a child that obeys or ignores the signals, called by
\* stop_tunnel and by closeEvent
NextStop ==
    \/ StartTunnel
    \/ RunnerThread
    \/ ChildWrite(PlainLines)
    \/ ChildExit
    \/ StopTunnelSteps
    \/ StopSteps
    \/ CloseEvent
    \/ CloseWaitRunner
    \/ CloseLog

SpecStop == Init /\ [][NextStop]_vars

\* steps of the log file's writer
LogWriter ==
    \/ LogCreate
    \/ LogWrite
    \/ LogWriteRest

\* steps of the LogMonitor thread
MonitorThread ==
    \/ LmBegin
    \/ LmCheck
    \/ LmFollow
    \/ LmReadError

\* lines of the child in the specification about the filter: one that
\* matches no pattern and one that matches
OutputLines == { <<"hello">>, <<"[I]", WS, "0x1a2b", WS, "io timeout">> }

\* the two sources of output lines, the ScriptRunner and the LogMonitor,
\* reading side by side what the child writes to its pipe and to its log
NextOutput ==
    \/ StartTunnel
    \/ RunnerThread
    \/ ChildWrite(OutputLines)
    \/ ChildExit
    \/ StartLogMonitoring
    \/ LogWriter
    \/ LmBegin
    \/ LmCheck
    \/ LmFollow

SpecOutput == Init /\ [][NextOutput]_vars

\* the LogMonitor following the log file that the script of one session
\* creates and appends to, with read errors
NextLog ==
    \/ StartTunnel
    \/ RunBegin
    \/ RunPopen
    \/ ChildExit
    \/ StartLogMonitoring
    \/ LogWriter
    \/ MonitorThread

SpecLog == Init /\ [][NextLog]_vars

\* the LogMonitor thread is scheduled: its outer loop polls every second
SpecLogFair == SpecLog /\ WF_vars(LmCheck)

\* log discovery when the script creates two files that match the pattern
NextDiscovery ==
    \/ StartTunnel
    \/ RunBegin
    \/ RunPopen
    \/ ChildExit
    \/ StartLogMonitoring
    \/ OtherLogCreate
    \/ OtherLogWrite
    \/ LogWriter
    \/ LmBegin
    \/ LmCheck
    \/ LmFollow

SpecDiscovery == Init /\ [][NextDiscovery]_vars

\* the life cycle of the threads, the child and the log file under the
\* handlers of the GUI, for a child that writes nothing
NextGui ==
    \/ StartTunnelFails
    \/ StartTunnel
    \/ RunnerThread
    \/ ChildExit
    \/ StopTunnelSteps
    \/ StopTunnelWaitLog
    \/ StopSteps
    \/ CloseEvent
    \/ CloseWaitRunner
    \/ CloseLog
    \/ Deliver
    \/ StartLogMonitoring
    \/ LogCreate
    \/ LmBegin
    \/ LmCheck
    \/ LmFollow

SpecGui == Init /\ [][NextGui]_vars

\* the GUI thread goes on through stop_tunnel once a wait has returned
SpecGuiFair ==
    SpecGui /\ WF_vars(StopTunnelLog) /\ WF_vars(StopTunnelWaitLog)

\* the whole program
Next ==
    \/ StartTunnelFails
    \/ StartTunnel
    \/ RunnerThread
    \/ ChildWrite(PlainLines)
    \/ ChildExit
    \/ StopTunnelSteps
    \/ StopTunnelWaitLog
    \/ StopSteps
    \/ CloseEvent
    \/ CloseWaitRunner
    \/ CloseLog
    \/ Deliver
    \/ StartLogMonitoring
    \/ LogWriter
    \/ MonitorThread

Spec == Init /\ [][Next]_vars

----------------------------------------------------------------------------
(* Vocabulary of the properties *)

\* the line matches at least one pattern of the suppression list
Suppressed(line) ==
    \E k \in 1..Len(FilterPatterns) : ReSearch(FilterPatterns[k], line)

NotSuppressed(line) == ~Suppressed(line)

IsStreamLine(e) == e.sig = "output" /\ e.src = "stream"

\* the lines of the child's stream that run() has emitted, in order
StreamTexts(evs) ==
    LET lines == SelectSeq(evs, IsStreamLine)
    IN  [i \in 1..Len(lines) |-> lines[i].text]

\* the lines a stream holds that match no suppression pattern, in order
ExpectedTexts(recs) ==
    SelectSeq([i \in 1..Len(recs) |-> RStrip(recs[i].text)], NotSuppressed)

ChildExited == child \in {"zombie", "reaped"}

----------------------------------------------------------------------------
(* Properties of ScriptRunner.run *)

\* C1: finished_signal is emitted only after every non-suppressed line the
\* child wrote before exiting has been emitted through output_signal, and no
\* line of the child's stream is emitted after it.
C1_FinishedAfterAllOutput ==
    \A i \in 1..Len(runOut) :
        (runOut[i].sig = "finished" /\ child # "none") =>
            /\ StreamTexts(SubSeq(runOut, 1, i)) = ExpectedTexts(written)
            /\ \A j \in (i + 1)..Len(runOut) : ~IsStreamLine(runOut[j])

\* C2: once the child has exited, by itself or stopped by stop(), run() emits
\* finished_signal with the child's exit code: it cannot return without.
C2_ExitIsReported ==
    (runPc = "done" /\ ChildExited) =>
        \E i \in 1..Len(runOut) : runOut[i] = Finished(exitCode)

\* C3: every line the child wrote that matches no suppression pattern has been
\* emitted exactly once when the child has exited and run() has returned.
C3_EveryLineOnce ==
    (runPc = "done" /\ ChildExited) =>
        StreamTexts(runOut) = ExpectedTexts(written)

----------------------------------------------------------------------------
(* Properties of ScriptRunner.stop *)

SendingLine == "[SYSTEM] Sending SIGINT (Ctrl+C) to tunnel process..."

\* positions of stop() between its first killpg and its return
StopInProgress == {"sigint", "wait10", "sigterm", "wait3", "sigkill", "waitkill"}

\* entries of stopLog that end a stop()
StopEnds == {"exit", "lookup", "error"}

\* the child exited without having been made to by a signal
ExitedByItself == ChildExited /\ dying = "none"

\* C4: in stop(), SIGTERM goes to the group only right after the 10 s wait
\* that followed SIGINT timed out, SIGKILL only right after the 3 s wait that
\* followed SIGTERM timed out, and SIGINT only as the first signal of a stop().
C4_EscalationOrder ==
    \A i \in 1..Len(stopLog) :
        /\ stopLog[i] = "SIGINT" => (i = 1 \/ stopLog[i - 1] \in StopEnds)
        /\ stopLog[i] = "SIGTERM" =>
              /\ i >= 3
              /\ stopLog[i - 1] = "timeout10"
              /\ stopLog[i - 2] = "SIGINT"
              /\ waited >= GracefulTimeout
        /\ stopLog[i] = "SIGKILL" =>
              /\ i >= 5
              /\ stopLog[i - 1] = "timeout3"
              /\ stopLog[i - 2] = "SIGTERM"
              /\ waited >= GracefulTimeout + TermTimeout

\* stop() escalated up to SIGKILL
C4_Witness ==
    /\ Len(stopLog) >= 5
    /\ stopLog[5] = "SIGKILL"

\* C5: a stop() that found a running child that ignores SIGINT and SIGTERM
\* (and does not exit by itself) returns with the child killed after the 10 s
\* and the 3 s waits both timed out, having gone through every stage in order:
\* SIGINT (SignalingInterrupt), timeout10 (WaitingGraceful), SIGTERM
\* (SignalingTerm), timeout3 (WaitingTerm), SIGKILL (SignalingKill), exit
\* (Terminated).
C5_FullEscalation ==
    ( /\ stopPc \in {"done", "idle"}
      /\ sysOut # <<>>
      /\ ignores = {"SIGINT", "SIGTERM"}
      /\ ~ExitedByItself )
    => /\ stopLog = <<"SIGINT", "timeout10", "SIGTERM", "timeout3", "SIGKILL", "exit">>
       /\ waited = GracefulTimeout + TermTimeout
       /\ child = "reaped"
       /\ exitCode = 0 - SigNum("SIGKILL")
       /\ Last(sysOut) = "[SYSTEM] Process killed"

C7_ExitShortCircuits ==
    \A i \in 2..Len(stopLog) :
        (stopLog[i] = "exit" /\ stopLog[i - 1] \in {"SIGINT", "SIGTERM"}) =>
            /\ i = Len(stopLog)
            /\ stopPc \notin StopInProgress
            /\ Last(sysOut) = IF stopLog[i - 1] = "SIGINT"
                              THEN "[SYSTEM] Process stopped cleanly"
                              ELSE "[SYSTEM] Process terminated"

\* the child ignored SIGINT and exited on SIGTERM
C7_Witness ==
    /\ stopLog = <<"SIGINT", "timeout10", "SIGTERM", "exit">>
    /\ dying = "SIGTERM"

\* C10: when killpg raises ProcessLookupError because the child is gone,
\* stop() returns at once, sends nothing more, and the line it emits is
\* "Process already terminated", not an error.
C10_LookupIsBenign ==
    \A i \in 1..Len(stopLog) :
        stopLog[i] = "lookup" =>
            /\ i = Len(stopLog)
            /\ stopPc \notin StopInProgress
            /\ Last(sysOut) = "[SYSTEM] Process already terminated"

\* the child exited by itself after the 10 s wait timed out, and was reaped
\* by run() before SIGTERM could be sent
C10_Witness ==
    /\ stopLog = <<"SIGINT", "timeout10", "lookup">>
    /\ ExitedByItself

----------------------------------------------------------------------------
(* Properties of the suppression filter on both sources *)

----------------------------------------------------------------------------
(* Properties of PDNRWTGui.start_tunnel *)

StartFailures == {"missing", "nonzero", "exception"}

\* C9: a start_tunnel that finds the script missing or whose sudo pre-check
\* fails shows the error and changes nothing else: no ScriptRunner, thread or
\* child is created, no log timer or LogMonitor is started, and the buttons
\* and the stopping flag stay as they were.
C9_FailedStartChangesNothing ==
    [][ ( /\ startTry' \in StartFailures
          /\ startTry' # startTry \/ errorBoxes' # errorBoxes )
        => /\ errorBoxes' = errorBoxes + 1
           /\ UNCHANGED <<scriptRunner, session, runnerVars, stopVars, childVars,
                          logVars, startBtn, stopBtn, stopping, status, guiPc>>
      ]_vars

\* a start failed after an earlier session had run and been stopped
C9_Witness ==
    /\ startTry \in StartFailures
    /\ errorBoxes = 1
    /\ session = 1
    /\ status = "Tunnel stopped."

----------------------------------------------------------------------------
(* Properties of log discovery and of the LogMonitor under the GUI *)

\* stop_tunnel has run to its end and nothing was started since
StopCompleted == guiPc = "idle" /\ status = "Tunnel stopped."

\* LogMonitor threads that have been started and have not returned from run()
ActiveMonitors == lmOrphans + (IF MonitorIsRunning THEN 1 ELSE 0)

\* C11: once stop_tunnel has completed, log discovery and following are
\* over: the log timer is not pending (no retry can fire and start a
\* LogMonitor) and no LogMonitor thread is still running.
C11_StopEndsLogging ==
    StopCompleted => ~logTimer /\ ActiveMonitors = 0

\* C12: at any time at most one LogMonitor thread is running.
C12_OneLogMonitor == ActiveMonitors <= 1

----------------------------------------------------------------------------
(* Properties of LogMonitor.run *)

\* the read position (cursor, part) is the end of the file
AtEndOfFile(cursor, part, lines) ==
    IF part = 0
    THEN cursor = Len(lines) /\ EndsWithNewline(lines)
    ELSE /\ cursor = Len(lines) - 1
         /\ ~EndsWithNewline(lines)
         /\ part = Len(Last(lines).text)

\* the text between the read position and the end of the record it is in
TextAtCursor == 
    LET rec == logLines[lmCursor + 1]
    IN  SubSeq(rec.text, lmPart + 1, Len(rec.text))

\* C13: every open of the log file, the first and the one after an error,
\* leaves the read cursor at the end of the file; the cursor never moves back
\* while the file is followed; and every line forwarded is text read at the
\* cursor.  So nothing that was in the file at an attach is forwarded.
C13_AttachAtEnd ==
    [][ /\ (lmPc = "check" /\ lmPc' = "follow")
            => AtEndOfFile(lmCursor', lmPart', logLines')
        /\ (lmPc = "follow" /\ lmPc' = "follow")
            => \/ lmCursor' > lmCursor
               \/ lmCursor' = lmCursor /\ lmPart' >= lmPart
        /\ (lmOut' # lmOut /\ Last(lmOut') # IOErrorLine)
            => /\ lmPc = "follow" /\ lmCursor < Len(logLines)
               /\ lmOut' = Append(lmOut, RStrip(TextAtCursor))
      ]_vars

\* the file held one line at the first open and at the open after a read
\* error; the line appended afterwards is the only one forwarded
C13_Witness ==
    /\ lmOut = << IOErrorLine, <<"tcp", WS, "connected">> >>
    /\ logAttach = 1
    /\ Len(logLines) = 2

----------------------------------------------------------------------------
(* Properties of log discovery *)

\* the matching file that was created last: the log file of logLines is
\* always created after the other file
NewestCreated == IF logFile THEN "main" ELSE "other"

\* C14: when monitoring starts with no matching file, discovery goes on (the
\* timer stays armed and no LogMonitor is made) for as long as there is no
\* file, and the LogMonitor that is started once files have appeared is given
\* the one that was created last.
C14_AttachesToNewest ==
    /\ [](~GlobFinds(logFile, otherLog) /\ session >= 1 => logTimer /\ ~logMonitor)
    /\ [][ (~logMonitor /\ logMonitor') => lmFile' = NewestCreated ]_vars

----------------------------------------------------------------------------
(* Properties of the follow loop *)

\* the lines that were appended after the attach and that the LogMonitor has
\* read to their end, and whose text is t
ReadWhole(t) == {i \in (logAttach + 1)..lmCursor : logLines[i].text = t}

\* C15: as long as no read error occurred, every line appended after the
\* attach that matches no pattern and that the LogMonitor has read to its end
\* was forwarded once, whole: the forwarded lines hold its text as many times
\* as it was appended.
C15_WholeLinesOnce ==
    (lmFile = "main" /\ Count(lmOut, IOErrorLine) = 0) =>
        \A t \in LogTexts :
            NotSuppressed(RStrip(t)) =>
                Count(lmOut, RStrip(t)) = Cardinality(ReadWhole(t))

----------------------------------------------------------------------------
(* Properties of the error handling of LogMonitor.run *)

\* the latest thing the LogMonitor emitted is the report of a read error
ErrorReported == lmOut # <<>> /\ Last(lmOut) = IOErrorLine

\* C16: a read error is reported as one line, and the thread, which was not
\* stopped, goes back to waiting for its file instead of ending; it ends only
\* when it was stopped; and after a reported error it attaches to the file
\* again, from where it forwards lines.
C16_ErrorFallsBack ==
    /\ [][ (Count(lmOut', IOErrorLine) > Count(lmOut, IOErrorLine))
            => /\ lmOut' = Append(lmOut, IOErrorLine)
               /\ lmRunning /\ lmRunning'
               /\ lmPc' = "check" ]_vars
    /\ [](lmPc = "done" => ~lmRunning)
    /\ ((ErrorReported /\ lmPc = "check" /\ lmRunning) ~> (lmPc = "follow"))

\* after a read error the LogMonitor attached again and forwarded a line
\* that was appended to the file, empty until then, after the second attach
C16_Witness ==
    /\ lmOut = << IOErrorLine, <<"tcp", WS, "connected">> >>
    /\ logAttach = 0
    /\ lmPc = "follow"

----------------------------------------------------------------------------
(* Properties of the two filters *)

\* the line with every token in lower case
LowerLine(line) == [i \in 1..Len(line) |-> Lower(line[i])]

\* the parts of a rule occur in this order in the line, compared as they are
RECURSIVE OccursFrom(_, _, _, _)
OccursFrom(rule, i, line, j) ==
    IF i > Len(rule) THEN TRUE
    ELSE IF j > Len(line) THEN FALSE
    ELSE \/ line[j] \in rule[i] /\ OccursFrom(rule, i + 1, line, j + 1)
         \/ OccursFrom(rule, i, line, j + 1)

\* the line matches at least one rule of the suppression list when case is
\* ignored
MatchesAnyRule(line) ==
    \E k \in 1..Len(FilterPatterns) :
        OccursFrom(FilterPatterns[k], 1, LowerLine(line), 1)

\* C17: for every line the two filters return the same, and they return
\* true exactly when the line matches a rule of the list, case ignored.
C17_FiltersAgree ==
    fResult # <<>> =>
        /\ fResult[1] = fResult[2]
        /\ fResult[1] = MatchesAnyRule(fLine)

\* both filters suppressed an upper-case handshake line
C17_Witness ==
    /\ fLine = <<"[E]", WS, "SOCKS5 SESSION HANDSHAKE">>
    /\ fResult = <<TRUE, TRUE>>

----------------------------------------------------------------------------
(* Properties of the children across sessions *)

\* the children launched by the GUI that are alive: the ones of replaced
\* ScriptRunners and the one of the present ScriptRunner
LiveChildren == orphans + (IF child = "alive" THEN 1 ELSE 0)

\* C18: at most one child launched by the GUI is alive at any time, and the
\* Start button is enabled only when the child of the previous session has
\* exited.
C18_OneChildAlive ==
    /\ LiveChildren <= 1
    /\ startBtn => child # "alive"

\* stop() of this session returned without signalling anything: it found no
\* process yet, or a child that had exited
StopFoundNothing == stopCalls >= 1 /\ sysOut = <<>>

\* C19: when stop() ran before run() had spawned the child, no child is left
\* running once stop_tunnel has completed.
C19_RacingStopNotLost ==
    (StopCompleted /\ StopFoundNothing) => child # "alive"

----------------------------------------------------------------------------
(* Properties of the finished signal after a manual stop *)

\* the messages script_finished shows
FinishedMessages == { FinishedStatus(0), FinishedStatus(1) }

\* the child of this session was ended by a signal of stop()
EndedByStop == dying # "none"

\* C20: once stop_tunnel has completed and the child was ended by the signal
\* of stop(), the status "Tunnel stopped." is not replaced by a message of
\* script_finished in that session.
C20_StoppedStatusStays ==
    [][ (StopCompleted /\ EndedByStop /\ session' = session)
            => status' \notin FinishedMessages ]_vars

----------------------------------------------------------------------------
(* Properties of the bounded waits of stop_tunnel *)

InStopTunnel == guiPc \in {"stop_runner", "stop_log", "wait_log"}

TimeoutWarnings ==
    { "[SYSTEM] Warning: Script thread did not stop cleanly",
      "[SYSTEM] Warning: Log monitor did not stop cleanly" }

\* the UI as stop_tunnel leaves it
StoppedUi == ~stopping /\ startBtn /\ ~stopBtn

\* a wait of stop_tunnel has timed out and stop_tunnel is not yet through
TimedOutInStop == InStopTunnel /\ warnings # <<>>

\* C21: a wait of stop_tunnel that times out only appends a warning line (no
\* error box, no other change of the UI than the one of the reset), and
\* stop_tunnel still completes with stopping = false, Start enabled and Stop
\* disabled.
C21_TimeoutOnlyWarns ==
    /\ [][ (InStopTunnel /\ warnings' # warnings) =>
              /\ \E w \in TimeoutWarnings : warnings' = Append(warnings, w)
              /\ errorBoxes' = errorBoxes
              /\ guiPc' \in {"stop_log", "idle"}
              /\ guiPc' = "stop_log" =>
                    <<startBtn, stopBtn, stopping, status>>' =
                    <<startBtn, stopBtn, stopping, status>> ]_vars
    /\ [][ (InStopTunnel /\ guiPc' = "idle") => StoppedUi' ]_vars
    /\ (TimedOutInStop ~> (guiPc = "idle" /\ StoppedUi))

\* stop_tunnel has completed after both waits timed out
C21_Witness ==
    /\ guiPc = "idle"
    /\ StoppedUi
    /\ status = "Tunnel stopped."
    /\ Len(warnings) = 2

====
